---------------------------- MODULE Spec2Model ----------------------------
(***************************************************************************)
(* Model of the DASH-style streaming tools: the manifest parsers, the      *)
(* sequential track download of programB.py and the producer/consumer      *)
(* pipeline of proxy.py (main thread, producer thread, consumer thread,    *)
(* the shared queue.Queue and the player socket).                          *)
(*                                                                         *)
(* A manifest text is modelled as a sequence of lines, a line as the       *)
(* sequence of its whitespace-separated tokens, a token as a record that   *)
(* says whether Python's int() accepts it.  A byte string is a sequence    *)
(* of small numbers.                                                       *)
(***************************************************************************)
EXTENDS Integers, Sequences, FiniteSets, TLC

\* ------------------------------------------------------------------ bounds
\* Largest number of segments of the track whose segment list is varied.
MaxSegs == 3
\* Length in bytes of every remote track file.
ResLen == 3
\* Largest number of tracks of a manifest text handed to the parsers alone.
MaxTracks == 2

\* ------------------------------------------------------------------ tokens
I(n) == [isInt |-> TRUE, v |-> n]
W(n) == [isInt |-> FALSE, v |-> n]

\* int(s) succeeds on a line holding exactly one integer token.
IsIntLine(line) == Len(line) = 1 /\ line[1].isInt

IsBlank(line) == Len(line) = 0

RECURSIVE DropLeadingBlank(_)
DropLeadingBlank(ls) ==
  IF ls # <<>> /\ IsBlank(Head(ls)) THEN DropLeadingBlank(Tail(ls)) ELSE ls

RECURSIVE DropTrailingBlank(_)
DropTrailingBlank(ls) ==
  IF ls # <<>> /\ IsBlank(ls[Len(ls)])
  THEN DropTrailingBlank(SubSeq(ls, 1, Len(ls) - 1))
  ELSE ls

\* manifest_content.strip().split('\n'): blank lines at either end go, and an
\* all-blank text still splits into one empty line.
StripSplit(content) ==
  LET ls == DropTrailingBlank(DropLeadingBlank(content))
  IN  IF ls = <<>> THEN << <<>> >> ELSE ls

\* ------------------------------------------------------------------ parser
ParseErr(kind) ==
  [err |-> kind, filename |-> <<>>, segments |-> <<>>, line_idx |-> 0]

\* The inner loop "for _ in range(num_segments)"; line_idx is 0-based as in
\* the code, so line k of the text is lines[k + 1] here.
RECURSIVE ReadSegments(_, _, _, _)
ReadSegments(lines, line_idx, remaining, acc) ==
  IF remaining <= 0
  THEN [err |-> "none", filename |-> <<>>, segments |-> acc, line_idx |-> line_idx]
  ELSE IF line_idx >= Len(lines) THEN ParseErr("IndexError")
  ELSE LET segment_info == lines[line_idx + 1]
       IN  IF Len(segment_info) < 1 THEN ParseErr("IndexError")
           ELSE IF ~segment_info[1].isInt THEN ParseErr("ValueError")
           ELSE IF Len(segment_info) < 2 THEN ParseErr("IndexError")
           ELSE IF ~segment_info[2].isInt THEN ParseErr("ValueError")
           ELSE ReadSegments(lines, line_idx + 1, remaining - 1,
                             Append(acc, <<segment_info[1].v, segment_info[2].v>>))

\* A track body read with one skipped line too few: the duration line is
\* taken for the segment count.
ReadTrackTwoSkipped(lines, line_idx) ==
  IF line_idx + 3 >= Len(lines) THEN ParseErr("IndexError")
  ELSE IF ~IsIntLine(lines[line_idx + 4]) THEN ParseErr("ValueError")
  ELSE LET r == ReadSegments(lines, line_idx + 4, lines[line_idx + 4][1].v, <<>>)
       IN  IF r.err # "none" THEN r
           ELSE [r EXCEPT !.filename = lines[line_idx + 1]]

\* One pass of the body of "for track_num in range(num_tracks)": the filename
\* line, three skipped lines, the segment count and the segment lines.
ReadTrack(lines, line_idx) ==
  IF line_idx >= Len(lines) THEN ParseErr("IndexError")
  ELSE IF line_idx + 4 >= Len(lines) THEN ParseErr("IndexError")
  ELSE IF ~IsIntLine(lines[line_idx + 5]) THEN ParseErr("ValueError")
  ELSE LET r == ReadSegments(lines, line_idx + 5, lines[line_idx + 5][1].v, <<>>)
       IN  IF r.err # "none" THEN r
           ELSE [r EXCEPT !.filename = lines[line_idx + 1]]

RECURSIVE TrackLoop(_, _, _, _, _)
TrackLoop(lines, line_idx, track_num, num_tracks, track_number) ==
  IF track_num >= num_tracks THEN ParseErr("NotFound")
  ELSE LET t == ReadTrack(lines, line_idx)
       IN  IF t.err # "none" THEN t
           ELSE IF track_num = track_number THEN t
           ELSE TrackLoop(lines, t.line_idx, track_num + 1, num_tracks, track_number)

\* The range check with its upper comparison off by one.
OutOfRangeOffByOne(track_number, num_tracks) ==
  track_number < 0 \/ track_number > num_tracks

\* proxy.py 26: the explicit check of the requested index.
OutOfRange(track_number, num_tracks) ==
  track_number < 0 \/ track_number >= num_tracks

\* proxy.py parse_manifest_for_track: err is "none" and (filename, segments)
\* the result, or err names the exception ("TrackRange" is the ValueError of
\* the explicit range check).
parse_manifest_for_track(manifest_content, track_number) ==
  LET lines == StripSplit(manifest_content)
  IN  IF Len(lines) < 2 THEN ParseErr("IndexError")
      ELSE IF ~IsIntLine(lines[2]) THEN ParseErr("ValueError")
      ELSE LET num_tracks == lines[2][1].v
           IN  IF OutOfRange(track_number, num_tracks)
               THEN ParseErr("TrackRange")
               ELSE TrackLoop(lines, 2, 0, num_tracks, track_number)

RECURSIVE AllTracks(_, _, _, _)
AllTracks(lines, line_idx, left, tracks) ==
  IF left <= 0 THEN [err |-> "none", tracks |-> tracks]
  ELSE LET t == ReadTrack(lines, line_idx)
       IN  IF t.err # "none" THEN [err |-> t.err, tracks |-> <<>>]
           ELSE AllTracks(lines, t.line_idx, left - 1,
                          Append(tracks, [filename |-> t.filename,
                                          num_segments |-> Len(t.segments),
                                          segments |-> t.segments]))

\* programB.py parse_manifest: every track, in order.
parse_manifest(manifest_content) ==
  LET lines == StripSplit(manifest_content)
  IN  IF Len(lines) < 2 THEN [err |-> "IndexError", tracks |-> <<>>]
      ELSE IF ~IsIntLine(lines[2]) THEN [err |-> "ValueError", tracks |-> <<>>]
      ELSE AllTracks(lines, 2, lines[2][1].v, <<>>)

\* programA.py 47-53: total_size, the sizes added up in segment order.
RECURSIVE TotalSize(_)
TotalSize(segs) ==
  IF segs = <<>> THEN 0
  ELSE TotalSize(SubSeq(segs, 1, Len(segs) - 1)) + segs[Len(segs)][2]

RECURSIVE AllTracksA(_, _, _, _)
AllTracksA(lines, line_idx, left, tracks) ==
  IF left <= 0 THEN [err |-> "none", tracks |-> tracks]
  ELSE LET t == ReadTrack(lines, line_idx)
       IN  IF t.err # "none" THEN [err |-> t.err, tracks |-> <<>>]
           ELSE AllTracksA(lines, t.line_idx, left - 1,
                           Append(tracks, [filename |-> t.filename,
                                           num_segments |-> lines[line_idx + 5][1].v,
                                           total_size |-> TotalSize(t.segments),
                                           segments |-> t.segments]))

\* programA.py parse_manifest: (num_tracks, tracks), every track in order,
\* or err names the exception.
parse_manifestA(manifest_content) ==
  LET lines == StripSplit(manifest_content)
      failed(kind) == [err |-> kind, num_tracks |-> 0, tracks |-> <<>>]
  IN  IF Len(lines) < 2 THEN failed("IndexError")
      ELSE IF ~IsIntLine(lines[2]) THEN failed("ValueError")
      ELSE LET r == AllTracksA(lines, 2, lines[2][1].v, <<>>)
           IN  IF r.err # "none" THEN failed(r.err)
               ELSE [err |-> "none", num_tracks |-> lines[2][1].v, tracks |-> r.tracks]

\* ------------------------------------------------------------------ origin
\* Builder of a manifest text in the format the server publishes: movie name,
\* track count, then per track the filename, codec, bit rate, duration,
\* segment count and one "offset size" line per segment.
SegmentLines(segs) == [i \in 1..Len(segs) |-> <<I(segs[i][1]), I(segs[i][2])>>]

TrackLines(t) ==
  << t.filename, <<W(8)>>, <<I(1)>>, <<I(1)>>, <<I(Len(t.segments))>> >>
    \o SegmentLines(t.segments)

RECURSIVE AllTrackLines(_)
AllTrackLines(tracks) ==
  IF tracks = <<>> THEN <<>>
  ELSE TrackLines(Head(tracks)) \o AllTrackLines(Tail(tracks))

BuildManifest(tracks) ==
  << <<W(0)>>, <<I(Len(tracks))>> >> \o AllTrackLines(tracks)

\* The byte ranges a manifest of the origin names: the first byte of a file
\* and the rest of it.  A segment list may name them in any order and more
\* than once (the format does not ask for contiguous or ascending offsets).
Ranges == { <<0, 1>>, <<1, ResLen - 1>> }

SegLists == UNION {[1..n -> Ranges] : n \in 0..MaxSegs}

\* Track 0 is file 1 with any segment list; track 1 is file 2 with one segment.
OriginTracks(segs) ==
  << [filename |-> <<W(1)>>, segments |-> segs],
     [filename |-> <<W(2)>>, segments |-> << <<0, 1>> >>] >>

WellFormed == {BuildManifest(OriginTracks(segs)) : segs \in SegLists}

\* What each line of BuildManifest(tracks) is, and the track it belongs to.
RECURSIVE TrackRoles(_, _)
TrackRoles(tracks, index) ==
  IF tracks = <<>> THEN <<>>
  ELSE << [role |-> "filename", track |-> index], [role |-> "codec", track |-> index],
          [role |-> "bitrate", track |-> index], [role |-> "duration", track |-> index],
          [role |-> "segcount", track |-> index] >>
         \o [j \in 1..Len(Head(tracks).segments) |-> [role |-> "segment", track |-> index]]
         \o TrackRoles(Tail(tracks), index + 1)

Roles(tracks) ==
  << [role |-> "name", track |-> -1], [role |-> "count", track |-> -1] >>
    \o TrackRoles(tracks, 0)

\* A text as built, or one damage done to it: cut after a line, the last
\* token of a line made a word int() rejects, a segment line left with its
\* first token only, a segment line given a third token (an integer, or a
\* word), one more whole track block after the last one.
NoDamage == [kind |-> "none", line |-> 0]

ExtraBlock ==
  TrackLines([filename |-> <<W(9)>>, segments |-> << <<0, 1>> >>])

Damaged(text, d) ==
  CASE d.kind = "none"  -> text
    [] d.kind = "cut"   -> SubSeq(text, 1, d.line)
    [] d.kind = "word"  -> [text EXCEPT ![d.line] = [@ EXCEPT ![Len(@)] = W(3)]]
    [] d.kind = "short" -> [text EXCEPT ![d.line] = << @[1] >>]
    [] d.kind = "long"  -> [text EXCEPT ![d.line] = Append(@, I(7))]
    [] d.kind = "junk"  -> [text EXCEPT ![d.line] = Append(@, W(3))]
    [] d.kind = "extra" -> text \o ExtraBlock

\* Every damage that can be done to BuildManifest(tracks): a cut anywhere, a
\* word in any integer field, the token damages on any segment line.
Damages(tracks) ==
  LET roles == Roles(tracks)
      at(rs) == {k \in 1..Len(roles) : roles[k].role \in rs}
  IN  {[kind |-> "cut", line |-> k] : k \in 0..(Len(roles) - 1)}
        \cup {[kind |-> "word", line |-> k] : k \in at({"count", "segcount", "segment"})}
        \cup {[kind |-> x, line |-> k] : x \in {"short", "long", "junk"}, k \in at({"segment"})}
        \cup {[kind |-> "extra", line |-> Len(roles)]}

\* Texts the parsers reject: cut short inside track 0, a segment count that is
\* no integer, a segment line with one token.
SampleTracks == OriginTracks(<< <<0, 1>>, <<1, ResLen - 1>> >>)

Sample == BuildManifest(SampleTracks)

SampleDamages ==
  { [kind |-> "cut", line |-> 7],
    [kind |-> "word", line |-> 7],
    [kind |-> "short", line |-> 8] }

Malformed == {Damaged(Sample, d) : d \in SampleDamages}

Manifests == WellFormed \cup Malformed

\* The track lists handed to the parsers alone: up to MaxTracks tracks of one
\* segment count, no (offset, size) pair twice in a text, the offsets of a
\* track ascending or descending.
BuiltSegment(index, j, count, descending) ==
  IF descending
  THEN << MaxSegs * index + (count - j), count - j + 1 >>
  ELSE << MaxSegs * index + (j - 1), j >>

BuiltTrack(index, count, descending) ==
  [filename |-> <<W(index + 1)>>,
   segments |-> [j \in 1..count |-> BuiltSegment(index, j, count, descending)]]

BuiltTracks ==
  { [i \in 1..n |-> BuiltTrack(i - 1, count, descending)] :
      n \in 0..MaxTracks, count \in 0..MaxSegs, descending \in BOOLEAN }

\* The bytes of the remote file named by a filename line: file k holds the
\* bytes 10k+1 .. 10k+ResLen, so no two positions of the origin hold the same
\* byte.
Resource(filename) ==
  IF Len(filename) = 1 /\ ~filename[1].isInt
  THEN [i \in 1..ResLen |-> 10 * filename[1].v + i]
  ELSE <<>>

Min(a, b) == IF a <= b THEN a ELSE b

\* The bytes [offset, offset + size - 1] of a file (what "Range:
\* bytes=offset-(offset+size-1)" asks for).
RangeBytes(res, offset, size) == SubSeq(res, offset + 1, Min(offset + size, Len(res)))

\* What one GET with a Range header can come back as: the range itself, the
\* range one byte short, the whole file (a server that ignores Range), or an
\* error (a 4xx/5xx status for raise_for_status, or a transport exception).
Responses(filename, offset, size) ==
  LET res   == Resource(filename)
      exact == RangeBytes(res, offset, size)
  IN  { [ok |-> TRUE, body |-> exact],
        [ok |-> TRUE, body |-> SubSeq(exact, 1, Len(exact) - 1)],
        [ok |-> TRUE, body |-> res],
        [ok |-> FALSE, body |-> <<>>] }

\* How a response compares with the request.
Kind(resp, size) ==
  IF ~resp.ok THEN "error"
  ELSE IF Len(resp.body) = size THEN "exact" ELSE "badlen"

\* The concatenation of the file's byte ranges named by segs[1..n].
RECURSIVE Concat(_, _, _)
Concat(res, segs, n) ==
  IF n = 0 THEN <<>>
  ELSE Concat(res, segs, n - 1) \o RangeBytes(res, segs[n][1], segs[n][2])

IsPrefix(s, t) == Len(s) <= Len(t) /\ s = SubSeq(t, 1, Len(s))

\* ------------------------------------------------------------------- state
VARIABLES
  mode,          \* which program runs: "proxy" or "programB"; or the parser
                 \* called alone: "parse_manifest", "parse_manifest_for_track"
  argv,          \* the command line: "ok", "badcount", "badint"
  built,         \* the tracks the manifest text was built from
  damage,        \* the damage done to the built text: [kind, line]
  manifest,      \* the manifest text the origin serves
  track_number,  \* proxy: int(sys.argv[3])
  mpc,           \* position of main(): proxy.py 126-177, programB.py 88-124
  merr,          \* how main() left its try block: "none" or the cause
  interrupted,   \* "no", or what Ctrl-C met: "transfer" (segments on their way), "idle"
  sock,          \* player_socket: "none", "created", "connected", "closed"
  ppc,           \* producer thread: "idle", "manifest", "fetch", "done"
  perr,          \* what the producer's except clause caught, or "none"
  filename,      \* proxy: filename of the requested track
  segments,      \* proxy: segments of the requested track
  pidx,          \* segment_idx of the next segment to fetch
  fetched,       \* Kind of every segment response received so far
  queue,         \* segment_queue: the items put and not yet got, oldest first
  pushed,        \* every item put so far, oldest first
  cpc,           \* consumer thread: "idle", "get", "send", "sending", "done"
  cerr,          \* the socket exception that ended the consumer, or "none"
  citem,         \* the item the consumer holds between get() and sendall()
  sent,          \* the bytes the player socket has accepted
  sentLast,      \* the item with is_last was sent in full
  parsed,        \* programA: what parse_manifest returned
  tracks,        \* programB: the parsed tracks
  btrack,        \* programB: index of the track being downloaded
  file,          \* programB: content of the file of the current track
  exitStatus     \* "running", "zero" or "nonzero"

vars ==
  << mode, argv, built, damage, manifest, track_number, parsed, mpc, merr, interrupted, sock, ppc, perr, filename,
     segments, pidx, fetched, queue, pushed, cpc, cerr, citem, sent, sentLast,
     tracks, btrack, file, exitStatus >>

inputVars == << mode, argv, built, damage, manifest, track_number >>
mainVars == << mpc, merr, interrupted, sock, exitStatus >>
producerVars == << ppc, perr, filename, segments, pidx, fetched, pushed >>
consumerVars == << cpc, cerr, citem, sent, sentLast >>
programBVars == << tracks, btrack, file >>

NoItem == [data |-> <<>>, is_last |-> FALSE]

NotParsed == [err |-> "none", num_tracks |-> 0, tracks |-> <<>>]

Init ==
  /\ mode \in {"proxy", "programB"}
  /\ argv \in {"ok", "badcount", "badint"}
  /\ built \in {OriginTracks(segs) : segs \in SegLists}
  /\ damage \in {NoDamage} \cup (IF built = SampleTracks THEN SampleDamages ELSE {})
  /\ manifest = Damaged(BuildManifest(built), damage)
  /\ manifest \in Manifests
  /\ track_number \in -1..2
  /\ parsed = NotParsed
  /\ mode = "programB" => (argv # "badint" /\ track_number = 0)
  /\ mpc = "start"
  /\ merr = "none"
  /\ interrupted = "no"
  /\ sock = "none"
  /\ ppc = "idle"
  /\ perr = "none"
  /\ filename = <<>>
  /\ segments = <<>>
  /\ pidx = 0
  /\ fetched = <<>>
  /\ queue = <<>>
  /\ pushed = <<>>
  /\ cpc = "idle"
  /\ cerr = "none"
  /\ citem = NoItem
  /\ sent = <<>>
  /\ sentLast = FALSE
  /\ tracks = <<>>
  /\ btrack = 0
  /\ file = <<>>
  /\ exitStatus = "running"

\* ------------------------------------------------------------ proxy: main
\* proxy.py 127-133: a wrong argument count is sys.exit(1); a track argument
\* that is no integer is an uncaught ValueError, which also ends the process
\* with status 1.
MainStart ==
  /\ mode = "proxy" /\ mpc = "start"
  /\ IF argv = "ok"
     THEN mpc' = "socket" /\ exitStatus' = exitStatus
     ELSE mpc' = "exited" /\ exitStatus' = "nonzero"
  /\ UNCHANGED << inputVars, parsed, merr, interrupted, sock, producerVars, queue, consumerVars, programBVars >>

\* proxy.py 140: socket.socket() returns a socket or raises OSError, which
\* "except Exception" catches.
MainSocket ==
  /\ mode = "proxy" /\ mpc = "socket"
  /\ \/ sock' = "created" /\ mpc' = "connect" /\ merr' = merr
     \/ sock' = sock /\ mpc' = "finally" /\ merr' = "socket"
  /\ UNCHANGED << inputVars, parsed, interrupted, exitStatus, producerVars, queue, consumerVars, programBVars >>

\* A connect() whose failure is noted and then passed over.
MainConnectGoesOn ==
  /\ mode = "proxy" /\ mpc = "connect"
  /\ \/ sock' = "connected" /\ mpc' = "startProducer" /\ merr' = merr
     \/ sock' = sock /\ mpc' = "startProducer" /\ merr' = "connect"
  /\ UNCHANGED << inputVars, parsed, interrupted, exitStatus, producerVars, queue, consumerVars, programBVars >>

\* proxy.py 141: connect() succeeds or raises (connection refused).
MainConnect ==
  /\ mode = "proxy" /\ mpc = "connect"
  /\ \/ sock' = "connected" /\ mpc' = "startProducer" /\ merr' = merr
     \/ sock' = sock /\ mpc' = "finally" /\ merr' = "connect"
  /\ UNCHANGED << inputVars, parsed, interrupted, exitStatus, producerVars, queue, consumerVars, programBVars >>

\* proxy.py 145-152: the queue is created (unbounded: queue.Queue() has no
\* maxsize) and the producer thread started.
MainStartProducer ==
  /\ mode = "proxy" /\ mpc = "startProducer"
  /\ ppc' = "manifest"
  /\ mpc' = "startConsumer"
  /\ UNCHANGED << inputVars, parsed, merr, interrupted, sock, exitStatus, perr, filename, segments, pidx,
                  fetched, pushed, queue, consumerVars, programBVars >>

\* proxy.py 155-159
MainStartConsumer ==
  /\ mode = "proxy" /\ mpc = "startConsumer"
  /\ cpc' = "get"
  /\ mpc' = "joinProducer"
  /\ UNCHANGED << inputVars, parsed, merr, interrupted, sock, exitStatus, producerVars, queue, cerr, citem,
                  sent, sentLast, programBVars >>

\* proxy.py 162: producer.join() returns once the producer thread has ended.
MainJoinProducer ==
  /\ mode = "proxy" /\ mpc = "joinProducer"
  /\ ppc = "done"
  /\ mpc' = "joinConsumer"
  /\ UNCHANGED << inputVars, parsed, merr, interrupted, sock, exitStatus, producerVars, queue, consumerVars,
                  programBVars >>

\* proxy.py 163-165: consumer.join() returns once the consumer thread has
\* ended; "Streaming complete" is printed and the try block left.
MainJoinConsumer ==
  /\ mode = "proxy" /\ mpc = "joinConsumer"
  /\ cpc = "done"
  /\ mpc' = "finally"
  /\ UNCHANGED << inputVars, parsed, merr, interrupted, sock, exitStatus, producerVars, queue, consumerVars,
                  programBVars >>

\* The positions of main() inside its try block (proxy.py 139-165).
InTry == {"socket", "connect", "startProducer", "startConsumer", "joinProducer",
          "joinConsumer"}

\* proxy.py 167-168: Ctrl-C raises KeyboardInterrupt in the main thread, which
\* leaves the try block for the except clause; the two threads are not told.
\* One Ctrl-C is modelled, arriving while main() is inside its try block.
Interrupt ==
  /\ mode = "proxy" /\ mpc \in InTry
  /\ merr' = "interrupt"
  /\ interrupted' = IF ppc = "fetch" \/ cpc \in {"send", "sending"} \/ queue # <<>>
                    THEN "transfer" ELSE "idle"
  /\ mpc' = "finally"
  /\ UNCHANGED << inputVars, parsed, sock, exitStatus, producerVars, queue, consumerVars,
                  programBVars >>

\* A finally clause that closes nothing.
CleanupNothing(s) == s

\* proxy.py 171-177: the socket after the finally clause.
Cleanup(s) == IF s # "none" THEN "closed" ELSE s

MainFinally ==
  /\ mode = "proxy" /\ mpc = "finally"
  /\ sock' = Cleanup(sock)
  /\ mpc' = "returned"
  /\ UNCHANGED << inputVars, parsed, merr, interrupted, exitStatus, producerVars, queue,
                  consumerVars, programBVars >>

\* main() returned, so the script ends with status 0; the interpreter first
\* waits for the two non-daemon threads.
ThreadsEnded == ppc \in {"idle", "done"} /\ cpc \in {"idle", "done"}

ProcessExit ==
  /\ mode = "proxy" /\ mpc = "returned"
  /\ ThreadsEnded
  /\ mpc' = "exited"
  /\ exitStatus' = "zero"
  /\ UNCHANGED << inputVars, parsed, merr, interrupted, sock, producerVars, queue, consumerVars,
                  programBVars >>

\* -------------------------------------------------------- proxy: producer
\* proxy.py 69-73: the producer thread downloads the manifest (the GET may
\* fail) and parses it; any exception ends the thread in its except clause.
\* A track without segments ends the thread at once: the loop body never runs.
ProducerManifest ==
  /\ mode = "proxy" /\ ppc = "manifest"
  /\ \/ /\ perr' = "download"
        /\ ppc' = "done"
        /\ UNCHANGED << filename, segments >>
     \/ LET r == parse_manifest_for_track(manifest, track_number)
        IN  IF r.err # "none"
            THEN /\ perr' = r.err
                 /\ ppc' = "done"
                 /\ UNCHANGED << filename, segments >>
            ELSE /\ filename' = r.filename
                 /\ segments' = r.segments
                 /\ perr' = perr
                 /\ ppc' = IF Len(r.segments) = 0 THEN "done" ELSE "fetch"
  /\ UNCHANGED << inputVars, parsed, mainVars, pidx, fetched, pushed, queue, consumerVars,
                  programBVars >>

\* proxy.py 145: queue.Queue() is built without a maxsize, which is maxsize 0:
\* no capacity.
maxsize == 0

\* A queue built with queue.Queue(maxsize=1).
FullAtOne == Len(queue) >= 1

\* queue.Queue: put() blocks while the queue is full, which it is only when
\* maxsize > 0 and that many items are in it.
Full == maxsize > 0 /\ Len(queue) >= maxsize

\* The comparison of line 84 off by one.
IsLastOffByOne(segment_idx, segs) == segment_idx = Len(segs)

\* proxy.py 84
IsLast(segment_idx, segs) == segment_idx = Len(segs) - 1

\* proxy.py 76-85, one pass of the loop: the range request, raise_for_status,
\* and the put of (response.content, is_last).  The body is put as received:
\* its length is not compared with size.  The pass ends with the put, so it
\* waits where put() would.
ProducerFetch ==
  /\ mode = "proxy" /\ ppc = "fetch"
  /\ ~Full
  /\ LET offset == segments[pidx + 1][1]
         size   == segments[pidx + 1][2]
     IN  \E resp \in Responses(filename, offset, size) :
           /\ fetched' = Append(fetched, Kind(resp, size))
           /\ IF ~resp.ok
              THEN /\ perr' = "fetch"
                   /\ ppc' = "done"
                   /\ UNCHANGED << pidx, queue, pushed >>
              ELSE /\ queue' = Append(queue, [data |-> resp.body,
                                              is_last |-> IsLast(pidx, segments)])
                   /\ pushed' = Append(pushed, [data |-> resp.body,
                                                  is_last |-> IsLast(pidx, segments)])
                   /\ pidx' = pidx + 1
                   /\ perr' = perr
                   /\ ppc' = IF pidx + 1 >= Len(segments) THEN "done" ELSE "fetch"
  /\ UNCHANGED << inputVars, parsed, mainVars, filename, segments, consumerVars, programBVars >>

\* -------------------------------------------------------- proxy: consumer
\* A get() that does not wait: on an empty queue the loop ends.
ConsumerGetNoWait ==
  /\ mode = "proxy" /\ cpc = "get"
  /\ IF queue # <<>>
     THEN citem' = Head(queue) /\ queue' = Tail(queue) /\ cpc' = "send"
     ELSE citem' = citem /\ queue' = queue /\ cpc' = "done"
  /\ UNCHANGED << inputVars, parsed, mainVars, producerVars, cerr, sent, sentLast, programBVars >>

\* proxy.py 97: get() blocks while the queue is empty.  The test of line 99
\* never succeeds: the producer puts response.content, which is never None.
ConsumerGet ==
  /\ mode = "proxy" /\ cpc = "get"
  /\ queue # <<>>
  /\ citem' = Head(queue)
  /\ queue' = Tail(queue)
  /\ cpc' = "send"
  /\ UNCHANGED << inputVars, parsed, mainVars, producerVars, cerr, sent, sentLast, programBVars >>

\* The loop without the break of lines 118-119.
AfterSendNoBreak(is_last) == "get"

\* proxy.py 118-119: where the loop goes after a full send.
AfterSend(is_last) == IF is_last THEN "done" ELSE "get"

\* proxy.py 104, entering sendall(): on a socket main() has already closed it
\* raises OSError at once (caught at 109, which breaks the loop).
ConsumerSend ==
  /\ mode = "proxy" /\ cpc = "send"
  /\ IF sock = "closed"
     THEN cerr' = "OSError" /\ cpc' = "done" /\ citem' = NoItem
     ELSE cerr' = cerr /\ cpc' = "sending" /\ citem' = citem
  /\ UNCHANGED << inputVars, parsed, mainVars, producerVars, queue, sent, sentLast, programBVars >>

\* proxy.py 104-119, sendall() returning: the whole payload was sent, or it
\* raises after part of it (BrokenPipeError, or another OSError: a reset, or
\* the socket closed by main() under the call).  Either exception breaks the
\* loop; after a full send the loop goes on unless is_last.
ConsumerSent ==
  /\ mode = "proxy" /\ cpc = "sending"
  /\ \/ /\ sent' = sent \o citem.data
        /\ sentLast' = (sentLast \/ citem.is_last)
        /\ cpc' = AfterSend(citem.is_last)
        /\ cerr' = cerr
     \/ /\ \E n \in 0..(Len(citem.data) - 1), e \in {"BrokenPipeError", "OSError"} :
             /\ sent' = sent \o SubSeq(citem.data, 1, n)
             /\ cerr' = e
        /\ cpc' = "done"
        /\ sentLast' = sentLast
  /\ citem' = NoItem
  /\ UNCHANGED << inputVars, parsed, mainVars, producerVars, queue, programBVars >>

\* ---------------------------------------------------------------- programB
\* programB.py 89-102: the argument count, the manifest download and the
\* parse; any exception is caught at line 120 and ends in sys.exit(1).
BStart ==
  /\ mode = "programB" /\ mpc = "start"
  /\ \/ /\ argv # "ok"
        /\ mpc' = "exited" /\ exitStatus' = "nonzero" /\ merr' = merr
        /\ UNCHANGED tracks
     \/ /\ argv = "ok"
        /\ mpc' = "exited" /\ exitStatus' = "nonzero" /\ merr' = "download"
        /\ UNCHANGED tracks
     \/ /\ argv = "ok"
        /\ LET r == parse_manifest(manifest)
           IN  IF r.err # "none"
               THEN /\ mpc' = "exited" /\ exitStatus' = "nonzero" /\ merr' = r.err
                    /\ UNCHANGED tracks
               ELSE /\ tracks' = r.tracks
                    /\ mpc' = IF Len(r.tracks) = 0 THEN "results" ELSE "open"
                    /\ UNCHANGED << exitStatus, merr >>
  /\ UNCHANGED << inputVars, parsed, interrupted, sock, producerVars, queue, consumerVars, btrack,
                  file >>

\* programB.py 106, 64-72 and 81-85: download_track opens the track's file for
\* writing, which empties it, or open() raises; a track without segments is
\* complete at once.
AfterTrack(n) == IF n + 1 >= Len(tracks) THEN "results" ELSE "open"

BOpen ==
  /\ mode = "programB" /\ mpc = "open"
  /\ \/ /\ file' = <<>>
        /\ fetched' = <<>>
        /\ pidx' = 0
        /\ IF Len(tracks[btrack + 1].segments) = 0
           THEN mpc' = AfterTrack(btrack) /\ btrack' = btrack + 1
           ELSE mpc' = "fetch" /\ btrack' = btrack
        /\ UNCHANGED << exitStatus, merr >>
     \/ /\ mpc' = "exited" /\ exitStatus' = "nonzero" /\ merr' = "open"
        /\ UNCHANGED << file, fetched, pidx, btrack >>
  /\ UNCHANGED << inputVars, parsed, interrupted, sock, ppc, perr, filename, segments, pushed,
                  queue, consumerVars, tracks >>

\* programB.py 73-79, one pass of the loop: the range request,
\* raise_for_status and the write of response.content to the file.
BFetch ==
  /\ mode = "programB" /\ mpc = "fetch"
  /\ LET track  == tracks[btrack + 1]
         offset == track.segments[pidx + 1][1]
         size   == track.segments[pidx + 1][2]
     IN  \E resp \in Responses(track.filename, offset, size) :
           /\ fetched' = Append(fetched, Kind(resp, size))
           /\ IF ~resp.ok
              THEN /\ mpc' = "exited" /\ exitStatus' = "nonzero" /\ merr' = "fetch"
                   /\ UNCHANGED << file, pidx, btrack >>
              ELSE /\ file' = file \o resp.body
                   /\ UNCHANGED << exitStatus, merr >>
                   /\ IF pidx + 1 >= Len(track.segments)
                      THEN mpc' = AfterTrack(btrack) /\ btrack' = btrack + 1 /\ pidx' = pidx + 1
                      ELSE mpc' = "fetch" /\ btrack' = btrack /\ pidx' = pidx + 1
  /\ UNCHANGED << inputVars, parsed, interrupted, sock, ppc, perr, filename, segments, pushed,
                  queue, consumerVars, tracks >>

\* programB.py 112-118: the results are written and main() returns.
BResults ==
  /\ mode = "programB" /\ mpc = "results"
  /\ mpc' = "exited"
  /\ exitStatus' = "zero"
  /\ UNCHANGED << inputVars, parsed, merr, interrupted, sock, producerVars, queue, consumerVars,
                  programBVars >>

\* ------------------------------------------------------------ specification
Main ==
  \/ MainStart
  \/ MainSocket
  \/ MainConnect
  \/ MainStartProducer
  \/ MainStartConsumer
  \/ MainJoinProducer
  \/ MainJoinConsumer
  \/ MainFinally
  \/ ProcessExit

Producer == ProducerManifest \/ ProducerFetch

Consumer == ConsumerGet \/ ConsumerSend \/ ConsumerSent

ProgramB == BStart \/ BOpen \/ BFetch \/ BResults

Next == Main \/ Interrupt \/ Producer \/ Consumer \/ ProgramB

Spec == Init /\ [][Next]_vars

\* The scheduler runs every thread that can take a step, and every GET and
\* every sendall() returns; nothing obliges the user to press Ctrl-C.
FairSpec ==
  Spec /\ WF_vars(Main) /\ WF_vars(Producer) /\ WF_vars(Consumer) /\ WF_vars(ProgramB)

\* ------------------------------------------------------- the parsers alone
\* programA.py 79: num_tracks, tracks = parse_manifest(manifest_content).
CallParseManifest ==
  /\ mode = "parse_manifest" /\ mpc = "call"
  /\ parsed' = parse_manifestA(manifest)
  /\ mpc' = "returned"
  /\ UNCHANGED << inputVars, merr, interrupted, sock, exitStatus, producerVars, queue,
                  consumerVars, programBVars >>

\* proxy.py 72: filename, segments = parse_manifest_for_track(manifest_content,
\* track_number); perr is the exception it raised, if any.
CallParseForTrack ==
  /\ mode = "parse_manifest_for_track" /\ mpc = "call"
  /\ LET r == parse_manifest_for_track(manifest, track_number)
     IN  perr' = r.err /\ filename' = r.filename /\ segments' = r.segments
  /\ mpc' = "returned"
  /\ UNCHANGED << inputVars, parsed, merr, interrupted, sock, exitStatus, ppc, pidx,
                  fetched, pushed, queue, consumerVars, programBVars >>

\* One call of one parser on one text: a text as built from up to MaxTracks
\* tracks, or that text with one damage; the requested index from one below
\* the first track to one above the declared count.
ParserInit ==
  /\ mode \in {"parse_manifest", "parse_manifest_for_track"}
  /\ argv = "ok"
  /\ built \in BuiltTracks
  /\ damage \in {NoDamage} \cup Damages(built)
  /\ manifest = Damaged(BuildManifest(built), damage)
  /\ track_number \in (IF mode = "parse_manifest" THEN {0} ELSE -1..(MaxTracks + 1))
  /\ parsed = NotParsed
  /\ mpc = "call"
  /\ merr = "none"
  /\ interrupted = "no"
  /\ sock = "none"
  /\ ppc = "idle"
  /\ perr = "none"
  /\ filename = <<>>
  /\ segments = <<>>
  /\ pidx = 0
  /\ fetched = <<>>
  /\ queue = <<>>
  /\ pushed = <<>>
  /\ cpc = "idle"
  /\ cerr = "none"
  /\ citem = NoItem
  /\ sent = <<>>
  /\ sentLast = FALSE
  /\ tracks = <<>>
  /\ btrack = 0
  /\ file = <<>>
  /\ exitStatus = "running"

ParserNext == CallParseManifest \/ CallParseForTrack

ParserSpec == ParserInit /\ [][ParserNext]_vars

\* ---------------------------------------------------------------- notions
\* The bytes the requested track stands for: its ranges of the remote file,
\* concatenated in manifest order.
Expected == Concat(Resource(filename), segments, Len(segments))

\* programB: the track whose file holds `file` (0: no file opened yet), and
\* whether download_track is still inside its loop or was aborted in it.
InTrack == mpc = "fetch" \/ merr = "fetch"
FileTrack == IF InTrack THEN btrack + 1 ELSE btrack
ExpectedFile ==
  LET t == tracks[FileTrack]
  IN  Concat(Resource(t.filename), t.segments, Len(t.segments))

\* The bytes of a sequence of queue items, in order.
RECURSIVE Payloads(_)
Payloads(items) ==
  IF items = <<>> THEN <<>> ELSE Head(items).data \o Payloads(Tail(items))

\* Orderly completion of the proxy: both joins returned, no task caught an
\* exception, main() came out of its try block normally.
Orderly ==
  /\ mode = "proxy" /\ argv = "ok"
  /\ mpc \in {"returned", "exited"}
  /\ merr = "none" /\ perr = "none" /\ cerr = "none"
  /\ ppc = "done" /\ cpc = "done"

\* Every response so far had the requested length.
NoBadLen == \A i \in 1..Len(fetched) : fetched[i] # "badlen"

\* The producer's parse raised (a malformed manifest or a track index out of
\* range).
ManifestRejected == perr \in {"IndexError", "ValueError", "TrackRange", "NotFound"}

\* ------------------------------------------------------------------ claims
\* C1: the bytes written to the destination (the player socket of proxy.py,
\* the file of programB.py) are always a prefix of the track's byte ranges
\* concatenated in manifest order, and on orderly completion they are the
\* whole concatenation.
C1_InOrderByteExact ==
  /\ mode = "proxy" =>
       /\ IsPrefix(sent, Expected)
       /\ Orderly => sent = Expected
  /\ (mode = "programB" /\ FileTrack > 0) =>
       /\ IsPrefix(file, ExpectedFile)
       /\ ~InTrack => file = ExpectedFile

\* The same statement, for the runs in which every response had the requested
\* length: ordering and completeness are right, only the length is unchecked.
InOrderGivenLengths == NoBadLen => C1_InOrderByteExact

\* C2: when the producer has run to completion on a track, the items it put
\* hold exactly one with is_last, and that one is the last put.
C2_ExactlyOneTerminal ==
  /\ \A i \in 1..(Len(pushed) - 1) : ~pushed[i].is_last
  /\ (mode = "proxy" /\ ppc = "done" /\ perr = "none") =>
       (Len(pushed) >= 1 /\ pushed[Len(pushed)].is_last)

\* C3: once the fetch of segment i (0 < i < k), counted from 0, has failed
\* (an error, or a body of the wrong length, which is a TransferError), no
\* item was put for segment i or a later one and the bytes sent are a prefix
\* of the ranges of segments 0..i-1.
FailedAt(i) == i + 1 <= Len(fetched) /\ fetched[i + 1] # "exact"

C3_FailureStopsDelivery ==
  mode = "proxy" =>
    \A i \in 1..(Len(segments) - 2) :
      FailedAt(i) =>
        /\ Len(pushed) <= i
        /\ IsPrefix(sent, Concat(Resource(filename), segments, i))

\* The same statement for the runs in which every response had the requested
\* length, so that the failure is one raise_for_status or requests raises.
FailureStopsGivenLengths == NoBadLen => C3_FailureStopsDelivery

\* C4: a response whose body length differs from the requested size stops the
\* task: it is the last response taken, its body is neither put on the queue
\* nor written, and programB exits with an error.
C4_LengthMismatchIsError ==
  \A i \in 1..Len(fetched) :
    fetched[i] = "badlen" =>
      /\ Len(fetched) = i
      /\ mode = "proxy" =>
           /\ ppc = "done"
           /\ Len(pushed) = i - 1
           /\ IsPrefix(sent, Concat(Resource(filename), segments, i - 1))
      /\ mode = "programB" =>
           /\ exitStatus = "nonzero"
           /\ IsPrefix(file, Concat(Resource(tracks[FileTrack].filename),
                                    tracks[FileTrack].segments, i - 1))

\* C5: once the consumer has sent the item with is_last it has ended, it
\* reads the queue and writes the socket no more, the queue is empty, and
\* what it sent is every item the producer put, once each and in order.
C5_ConsumerStopsAfterLast ==
  /\ [](sentLast =>
          /\ cpc = "done"
          /\ queue = <<>>
          /\ sent = Payloads(pushed))
  /\ [][sentLast => (queue' = queue /\ sent' = sent /\ cpc' = cpc)]_vars

C5_Witness ==
  sentLast /\ cpc = "done" /\ Len(pushed) = MaxSegs /\ mpc = "exited"

\* C6: under fair scheduling, a run of the proxy in which nothing goes wrong
\* (arguments, socket and connect fine, no interrupt, the manifest accepted
\* with a track of at least one segment, no fetch or send raising) reaches
\* the state where both threads have ended, the joins have returned and the
\* socket is closed.
Deviation ==
  \/ mode # "proxy"
  \/ argv # "ok"
  \/ merr # "none"
  \/ perr # "none"
  \/ cerr # "none"
  \/ (ppc = "done" /\ Len(segments) = 0)

Completed ==
  /\ ppc = "done" /\ cpc = "done"
  /\ mpc \in {"returned", "exited"}
  /\ sock = "closed"

C6_OrderlyCompletion == <>(Deviation \/ Completed)

C6_Witness == ~Deviation /\ Completed /\ Len(segments) = MaxSegs

\* C7: the proxy exits with status 0 exactly when the transfer completed in
\* an orderly way.
C7_ExitStatus ==
  (mode = "proxy" /\ exitStatus # "running") =>
    (exitStatus = "zero" <=> Orderly)

\* C8: a manifest the parser rejects is met before the pipeline starts: no
\* segment is fetched and no consumer thread is waiting on the queue.
C8_ManifestBeforePipeline ==
  (mode = "proxy" /\ ManifestRejected) =>
    (fetched = <<>> /\ cpc = "idle")

\* C9: once main() has handled an interrupt that came during a transfer, no
\* segment is fetched, the queue is not read, the socket is closed and the
\* exit status is not 0.
Handled == mode = "proxy" /\ interrupted = "transfer" /\ mpc \in {"returned", "exited"}

C9_OrderlyAbort ==
  /\ [][Handled => (Len(fetched') = Len(fetched) /\ Len(queue') >= Len(queue))]_vars
  /\ [](Handled => sock \in {"none", "closed"})
  /\ []((Handled /\ exitStatus # "running") => exitStatus = "nonzero")

\* C10: whenever main() has returned, the player socket, if one was created,
\* is closed.
C10_SocketReleased ==
  (mode = "proxy" /\ mpc \in {"returned", "exited"}) => sock \in {"none", "closed"}

C10_Witness ==
  /\ mode = "proxy" /\ mpc = "returned"
  /\ merr = "interrupt" /\ sock = "closed" /\ cpc = "sending"

\* C11: when connect() has failed, neither thread was started, so no manifest
\* and no segment was requested, and main() comes to its end.
ConnectFailed == mode = "proxy" /\ merr = "connect"

C11_ConnectFailureIsFatal ==
  /\ [](ConnectFailed =>
          /\ ppc = "idle" /\ cpc = "idle"
          /\ fetched = <<>> /\ pushed = <<>> /\ filename = <<>>)
  /\ (ConnectFailed ~> (mpc = "exited" /\ sock = "closed"))

C11_Witness == ConnectFailed /\ mpc = "exited" /\ sock = "closed" /\ ppc = "idle"

SendFailed == mode = "proxy" /\ cerr # "none"

C13_SendErrorStopsConsumer ==
  /\ [](SendFailed => (cpc = "done" /\ merr \in {"none", "interrupt"}))
  /\ [][SendFailed => (sent' = sent /\ cpc' = cpc /\ Len(queue') >= Len(queue))]_vars
  /\ (SendFailed ~>
        (ppc = "done" /\ mpc = "exited" /\ sock = "closed" /\ exitStatus = "zero"))

C13_Witness ==
  /\ SendFailed /\ interrupted = "no" /\ mpc = "exited"
  /\ Len(pushed) = MaxSegs /\ queue # <<>>

\* C18: when the producer has ended on an error (download, parse or fetch)
\* no is_last item is in the queue or will be; with every write of the
\* queued payloads succeeding and no Ctrl-C, the consumer never ends, the
\* join of the consumer never returns and the socket is never closed.
ProducerFailed == mode = "proxy" /\ ppc = "done" /\ perr # "none"

C18_StallOnProducerFailure ==
  ProducerFailed =>
    /\ \A i \in 1..Len(pushed) : ~pushed[i].is_last
    /\ (cerr = "none" /\ merr # "interrupt") =>
         /\ cpc # "done"
         /\ mpc \in {"startConsumer", "joinProducer", "joinConsumer"}
         /\ sock = "connected"

C18_Witness ==
  /\ ProducerFailed /\ perr = "fetch" /\ sent # <<>>
  /\ cpc = "get" /\ queue = <<>> /\ mpc = "joinConsumer" /\ interrupted = "no"

\* C19: with a well-formed manifest whose requested track has no segment,
\* connect and manifest download succeeding, the session ends: a run in
\* which the producer has returned is either at its end (consumer returned
\* with nothing written, joins returned, socket closed) or can still take a
\* step of main(), the producer or the consumer.
EmptyTrack ==
  /\ mode = "proxy" /\ ppc = "done" /\ perr = "none"
  /\ segments = <<>> /\ merr = "none"

C19_EmptyTrackTerminates ==
  EmptyTrack =>
    /\ sent = <<>>
    /\ \/ cpc = "done" /\ mpc \in {"returned", "exited"} /\ sock = "closed"
       \/ ENABLED (Main \/ Producer \/ Consumer)

\* C20: the socket is closed only when the consumer has ended (or was never
\* started), so that sendall() is never entered on a closed socket; no step
\* of the producer touches the socket.
C20_SocketOutlivesConsumer ==
  /\ mode = "proxy" /\ sock = "closed" => cpc \in {"idle", "done"}
  /\ cpc = "sending" => sock # "closed"

\* ---------------------------------------------------- claims on the parsers
FullParseReturned == mode = "parse_manifest" /\ mpc = "returned"

TrackParseReturned == mode = "parse_manifest_for_track" /\ mpc = "returned"

\* C14: on a text as built from N tracks of M segments each, parse_manifest
\* returns the count N and N track records whose filename and (offset, size)
\* pairs are those of the built tracks, in order; parse_manifest_for_track
\* with an index t of 0..N-1 returns the filename and the pairs of track t.
C14_ParseRoundTrip ==
  damage = NoDamage =>
    /\ FullParseReturned =>
         /\ parsed.err = "none"
         /\ parsed.num_tracks = Len(built)
         /\ Len(parsed.tracks) = Len(built)
         /\ \A t \in 1..Len(built) :
              /\ parsed.tracks[t].filename = built[t].filename
              /\ parsed.tracks[t].num_segments = Len(built[t].segments)
              /\ parsed.tracks[t].segments = built[t].segments
    /\ (TrackParseReturned /\ track_number \in 0..(Len(built) - 1)) =>
         /\ perr = "none"
         /\ filename = built[track_number + 1].filename
         /\ segments = built[track_number + 1].segments

C14_Witness ==
  /\ damage = NoDamage /\ TrackParseReturned
  /\ Len(built) = MaxTracks /\ track_number = MaxTracks - 1
  /\ Len(segments) = MaxSegs /\ segments[1][1] > segments[MaxSegs][1]

\* C15: a text with a required line missing (cut anywhere), an integer field
\* that int() rejects, or a segment line that is not exactly two integer
\* tokens makes both parsers raise; neither returns track data.
Malformation == damage.kind \in {"cut", "word", "short", "long", "junk"}

DeclaresCount ==
  /\ ~(damage.kind = "cut" /\ damage.line < 2)
  /\ ~(damage.kind = "word" /\ damage.line = 2)

C16_TrackIndexChecked ==
  (TrackParseReturned /\ DeclaresCount) =>
    /\ (track_number < 0 \/ track_number >= Len(built)) =>
         (perr = "TrackRange" /\ filename = <<>> /\ segments = <<>>)
    /\ (damage = NoDamage /\ track_number \in 0..(Len(built) - 1)) =>
         perr = "none"

C16_Witness ==
  /\ TrackParseReturned /\ damage.kind = "short"
  /\ Len(built) = MaxTracks /\ track_number = MaxTracks /\ perr = "TrackRange"

\* C17: a text whose declared track count differs from the number of track
\* blocks present (one block more after the last, or the text ending at a
\* block boundary before the last block) makes both parsers raise.
CountMismatch ==
  \/ damage.kind = "extra"
  \/ /\ damage.kind = "cut" /\ damage.line >= 2
     /\ Roles(built)[damage.line + 1].role = "filename"

C17_TrackCountMatchesBlocks ==
  CountMismatch =>
    /\ FullParseReturned => parsed.err # "none"
    /\ TrackParseReturned => perr # "none"
=============================================================================
